---- MODULE Spec2Model ----
(***************************************************************************)
(* Session model of the login/JWT application: AuthService (the session    *)
(* manager), authInterceptor, authGuard, LoginComponent and                *)
(* DashboardComponent, as configured by appConfig.                         *)
(*                                                                         *)
(* JavaScript runs one handler at a time.  A handler is modelled as the    *)
(* list of the state-changing statements it executes (todo); while todo is *)
(* not empty only the next statement of that handler can run, so the       *)
(* states between two statements of a handler are visible to the           *)
(* properties but not to other handlers.                                   *)
(***************************************************************************)
EXTENDS Integers, Sequences, FiniteSets, TLC

\* ---- bounds ----
MaxReq == 2            \* HTTP requests in flight at the same time

\* ---- input domains ----
Tokens == {"", "tok-1", "tok-2"}
UserIds == {1, 2}
ErrorStatuses == {0, 401, 403, 500}
Routes == {"/login", "/dashboard"}

VARIABLES
  localStorage,   \* value under key 'token_access': <<>> (absent) or <<string>>
  currentUser,    \* value of the private signal #currentUser
  isAuthMemo,     \* memo of the computed signal isAuthenticated
  reqs,           \* the HTTP requests in flight and the one just answered
  todo,           \* statements the running handler has still to execute
  hlog,           \* statements the running (or last) handler has executed
  handler,        \* the running (or last) handler
  pendingNav,     \* navigation requested from the router, not yet processed
  route,          \* the activated route
  isLoading,      \* LoginComponent.isLoading
  hist            \* history: what the properties need to remember

vars == <<localStorage, currentUser, isAuthMemo, reqs, todo, hlog, handler,
          pendingNav, route, isLoading, hist>>

\* ---- JavaScript values ----
NoProp == <<>>
JsNull == [t |-> "null", s |-> "", token |-> NoProp, id |-> 0]
JsString(x) == [t |-> "string", s |-> x, token |-> NoProp, id |-> 0]
\* the object literal { token }
ObjToken(x) == [t |-> "object", s |-> "", token |-> <<x>>, id |-> 0]
\* a user payload of a login response, e.g. { id: 1, email: ... }
ObjUser(i) == [t |-> "object", s |-> "", token |-> NoProp, id |-> i]

\* ToBoolean, as used by if (x) and !!x
Truthy(v) ==
  CASE v.t = "null" -> FALSE
    [] v.t = "string" -> v.s # ""
    [] v.t = "object" -> TRUE

\* ---- localStorage, one key ----
Absent == <<>>
getItem(ls) == IF ls = Absent THEN JsNull ELSE JsString(ls[1])
setItem(x) == <<x>>
removeItem == Absent

\* ---- statements of a handler ----
NoOut == [ok |-> FALSE, status |-> -1, token |-> "", user |-> 0]
NoCred == [email |-> "", password |-> ""]
Op0 == [op |-> "", tok |-> "", val |-> JsNull, to |-> "", b |-> FALSE,
        rid |-> 0, out |-> NoOut, url |-> "", cred |-> NoCred, caller |-> ""]
OpSetItem(x) == [Op0 EXCEPT !.op = "setItem", !.tok = x]
OpRemoveItem == [Op0 EXCEPT !.op = "removeItem"]
OpSet(v) == [Op0 EXCEPT !.op = "set", !.val = v]
OpNavigate(target) == [Op0 EXCEPT !.op = "navigate", !.to = target]
OpIsLoading(x) == [Op0 EXCEPT !.op = "isLoading.set", !.b = x]
OpPost(u, c, who) == [Op0 EXCEPT !.op = "post", !.url = u, !.cred = c, !.caller = who]
OpEmit(r, o) == [Op0 EXCEPT !.op = "emit", !.rid = r, !.out = o]

\* ---- transport outcomes ----
Success(tk, u) == [ok |-> TRUE, status |-> 200, token |-> tk, user |-> u]
Failure(st) == [ok |-> FALSE, status |-> st, token |-> "", user |-> 0]
LoginResponses == {Success("tok-1", 1), Success("tok-2", 2), Success("", 1)}
OtherResponses == {Success("", 0)}
Failures == {Failure(st) : st \in ErrorStatuses}

\* ---- AuthService ----
\* variant: the else branch restores a placeholder as well
checkAuthStatus_AlwaysSet(ls) ==
  LET token == getItem(ls)
  IN ObjToken(token.s)

checkAuthStatus(ls) ==
  LET token == getItem(ls)
  IN IF Truthy(token) THEN ObjToken(token.s) ELSE JsNull

\* variant: the constructor never restores the stored token
constructorAuthService_NoRestore(ls) == JsNull

\* variant: the restored placeholder does not hold the stored token
constructorAuthService_WrongToken(ls) ==
  IF Truthy(getItem(ls)) THEN ObjToken("") ELSE JsNull

\* the value of #currentUser when the constructor returns
constructorAuthService(ls) ==
  LET afterCheck == checkAuthStatus(ls)
      token == getItem(ls)
  IN IF Truthy(token) THEN ObjToken(token.s) ELSE afterCheck

\* variant: the tap forgets to persist the token
loginTap_NoStore(emitted) ==
  IF emitted.ok THEN <<OpSet(ObjUser(emitted.user))>> ELSE <<>>

\* variant: the tap persists the token and leaves the Session alone
loginTap_StoreOnly(emitted) ==
  IF emitted.ok THEN <<OpSetItem(emitted.token)>> ELSE <<>>

\* variant: the tap sets the Session before it writes storage
loginTap_SetFirst(emitted) ==
  IF emitted.ok
  THEN <<OpSet(ObjUser(emitted.user)), OpSetItem(emitted.token)>>
  ELSE <<>>

\* variant: the tap sets the Session only when it is empty
loginTap_FirstUser(emitted) ==
  IF emitted.ok
  THEN <<OpSetItem(emitted.token)>>
       \o (IF currentUser = JsNull THEN <<OpSet(ObjUser(emitted.user))>> ELSE <<>>)
  ELSE <<>>

\* the tap() of login: what runs when the transport emits `emitted`
loginTap(emitted) ==
  IF emitted.ok
  THEN <<OpSetItem(emitted.token), OpSet(ObjUser(emitted.user))>>
  ELSE <<>>

\* variants: logout clears only one of the two
logout_KeepSession == <<OpRemoveItem>>
logout_KeepToken == <<OpSet(JsNull)>>
\* variant: logout clears the Session before storage
logout_ClearFirst == <<OpSet(JsNull), OpRemoveItem>>
\* variant: logout also tells the backend
logout_Notify == <<OpRemoveItem, OpSet(JsNull), OpPost("logout", NoCred, "app")>>

logout == <<OpRemoveItem, OpSet(JsNull)>>

\* computed(() => !!this.#currentUser()): recomputed when marked dirty
isAuthenticated ==
  IF isAuthMemo.dirty THEN Truthy(currentUser) ELSE isAuthMemo.val
readIsAuthenticated == [val |-> isAuthenticated, dirty |-> FALSE]
\* variant: set() does not notify the computed
signalSet_NoNotify(old, v) == isAuthMemo

\* signal.set(v): dependants are notified unless Object.is(old, v)
signalSet(old, v) ==
  IF old.t = "null" /\ v.t = "null" THEN isAuthMemo
  ELSE [isAuthMemo EXCEPT !.dirty = TRUE]

\* ---- authInterceptor: catchError on the transport's outcome ----
\* variant: a 401 is replaced by another error
authInterceptor_Replace(outcome) ==
  IF outcome.ok
  THEN [ops |-> <<>>, emit |-> outcome]
  ELSE [ops |-> IF outcome.status = 401
                THEN logout \o <<OpNavigate("/login")>>
                ELSE <<>>,
        emit |-> IF outcome.status = 401 THEN Failure(0) ELSE outcome]

\* variant: navigation is requested before logout()
authInterceptor_NavFirst(outcome) ==
  IF outcome.ok
  THEN [ops |-> <<>>, emit |-> outcome]
  ELSE [ops |-> IF outcome.status = 401
                THEN <<OpNavigate("/login")>> \o logout
                ELSE <<>>,
        emit |-> outcome]

\* variant: every failure is treated as an expired session
authInterceptor_AnyError(outcome) ==
  IF outcome.ok
  THEN [ops |-> <<>>, emit |-> outcome]
  ELSE [ops |-> logout \o <<OpNavigate("/login")>>, emit |-> outcome]

\* variant: a 401 only logs out
authInterceptor_NoNavigate(outcome) ==
  IF outcome.ok
  THEN [ops |-> <<>>, emit |-> outcome]
  ELSE [ops |-> IF outcome.status = 401 THEN logout ELSE <<>>,
        emit |-> outcome]

\* variant: a 401 only redirects
authInterceptor_NoLogout(outcome) ==
  IF outcome.ok
  THEN [ops |-> <<>>, emit |-> outcome]
  ELSE [ops |-> IF outcome.status = 401 THEN <<OpNavigate("/login")>> ELSE <<>>,
        emit |-> outcome]

authInterceptor(outcome) ==
  IF outcome.ok
  THEN [ops |-> <<>>, emit |-> outcome]
  ELSE [ops |-> IF outcome.status = 401
                THEN logout \o <<OpNavigate("/login")>>
                ELSE <<>>,
        emit |-> outcome]

\* ---- LoginComponent ----
Credentials == {[email |-> "a@b.com", password |-> "secret1"],
                [email |-> "a@b.com", password |-> "abc"]}
WellFormedEmails == {"a@b.com"}
loginFormValid(c) ==
  /\ c.email # "" /\ c.email \in WellFormedEmails
  /\ c.password # "" /\ Len(c.password) >= 6

\* what the subscriber of request r does with what reaches it
subscriber(who, r, emitted) ==
  IF who = "LoginComponent"
  THEN IF emitted.ok
       THEN <<OpEmit(r, emitted), OpIsLoading(FALSE), OpNavigate("/dashboard")>>
       ELSE <<OpEmit(r, emitted), OpIsLoading(FALSE)>>
  ELSE <<OpEmit(r, emitted)>>

\* variant: the subscriber is served before the tap runs
responseHandler_EmitFirst(r, q, outcome) ==
  LET i == authInterceptor(outcome)
      tapped == IF q.url = "login" THEN loginTap(i.emit) ELSE <<>>
  IN i.ops \o subscriber(q.caller, r, i.emit) \o tapped

\* everything that runs when the transport answers request q with outcome:
\* the interceptor's catchError, then login's tap, then the subscriber
responseHandler(r, q, outcome) ==
  LET i == authInterceptor(outcome)
      tapped == IF q.url = "login" THEN loginTap(i.emit) ELSE <<>>
  IN i.ops \o tapped \o subscriber(q.caller, r, i.emit)

\* variant: login validates the credentials before posting
login_Validating(credentials, who) ==
  IF Len(credentials.password) >= 6
  THEN <<OpPost("login", credentials, who)>>
  ELSE <<>>

\* AuthService.login(credentials) subscribed by `who`: one POST, no validation
login(credentials, who) == <<OpPost("login", credentials, who)>>

\* the read-only view currentUser = #currentUser.asReadonly() has no set():
\* (currentUser as any).set(v) throws and writes nothing
asReadonlySet(v) == [threw |-> TRUE, value |-> currentUser]

\* ---- authGuard ----
authGuard_AlwaysTrue == [result |-> TRUE, ops |-> <<>>]
\* variant: admitting ends the session
authGuard_Consume ==
  IF isAuthenticated
  THEN [result |-> TRUE, ops |-> logout]
  ELSE [result |-> FALSE, ops |-> <<OpNavigate("/login")>>]
authGuard ==
  IF isAuthenticated
  THEN [result |-> TRUE, ops |-> <<>>]
  ELSE [result |-> FALSE, ops |-> <<OpNavigate("/login")>>]

\* ---- requests ----
NoNav == ""
\* the interceptor hands the request on as it received it: next(req)
authInterceptorRequest(q) == q
\* http.post(url, body) sets no header
Request(u, c, who) ==
  [url |-> u, cred |-> c, caller |-> who, st |-> "pending", resp |-> NoOut,
   got |-> <<>>,
   authorization |-> authInterceptorRequest([authorization |-> NoProp]).authorization]
Free == [url |-> "", cred |-> NoCred, caller |-> "", st |-> "free",
         resp |-> NoOut, got |-> <<>>, authorization |-> NoProp]
Pending == {r \in 1..MaxReq : reqs[r].st = "pending"}
FreeSlots == {r \in 1..MaxReq : reqs[r].st = "free"}
CanSend == Cardinality(Pending) < MaxReq
NextSlot == CHOOSE r \in FreeSlots : \A q \in FreeSlots : r <= q

Idle == [name |-> "idle", rid |-> 0, ls0 |-> Absent, cu0 |-> JsNull, arg |-> NoCred]

\* ---- history ----
\* last:  "login" after a successful login response, "empty" after a logout
\*        or a start from empty storage, "restored" after a start that found
\*        a session in storage
\* login: the response of the most recent successful login, if no logout
\*        ran after it (it is remembered across reloads)
\* app:   the run is one of the application as wired (SpecApp); old and nav
\*        are recorded in these runs only
\* old:   the login requests that were in flight when a logout ran
\* nav:   the requested navigation comes from LoginComponent's next
\*        callback ("login"), and a logout ran after the request ("loginOut")
HistInit(a) ==
  [app |-> a, last |-> "empty", login |-> NoOut, old |-> {}, nav |-> "none"]
HistLogout(rs) ==
  [app |-> hist.app, last |-> "empty", login |-> NoOut,
   old |-> IF hist.app
           THEN {r \in 1..MaxReq : rs[r].st = "pending" /\ rs[r].url = "login"}
           ELSE {},
   nav |-> IF hist.nav = "login" THEN "loginOut" ELSE hist.nav]
HistLogin(outcome) == [hist EXCEPT !.last = "login", !.login = outcome]
\* the interceptor's reaction to 401 is a logout
HistRespond(rs, q, outcome) ==
  IF outcome.ok
  THEN IF q.url = "login" THEN HistLogin(outcome) ELSE hist
  ELSE IF outcome.status = 401 THEN HistLogout(rs) ELSE hist
HistReload ==
  [app |-> hist.app,
   last |-> IF constructorAuthService(localStorage) = JsNull
            THEN "empty" ELSE "restored",
   login |-> hist.login, old |-> {}, nav |-> "none"]

\* ---- initial state: a page load ----
Boot(ls, url) ==
  /\ localStorage = ls
  /\ currentUser = constructorAuthService(ls)
  /\ isAuthMemo = [val |-> FALSE, dirty |-> TRUE]
  /\ todo = <<>>
  /\ hlog = <<>>
  /\ handler = [name |-> "constructor", rid |-> 0, ls0 |-> ls, cu0 |-> JsNull, arg |-> NoCred]
  /\ pendingNav = url
  /\ route = "/"
  /\ isLoading = FALSE

\* first visit: nothing stored yet (the key is written by this application only)
Init ==
  /\ reqs = [r \in 1..MaxReq |-> Free]
  /\ hist = HistInit(FALSE)
  /\ \E url \in Routes : Boot(Absent, url)

\* a handler starts only when no other handler is running
StartWith(name, r, ops, c) ==
  /\ handler = Idle
  /\ todo' = ops
  /\ hlog' = <<>>
  /\ handler' = [name |-> name, rid |-> r, ls0 |-> localStorage,
                 cu0 |-> currentUser, arg |-> c]
Start(name, r, ops) == StartWith(name, r, ops, NoCred)

\* ---- handlers ----
onSubmit(c) ==
  /\ loginFormValid(c) => CanSend
  /\ StartWith("onSubmit", 0,
               IF loginFormValid(c)
               THEN <<OpIsLoading(TRUE)>> \o login(c, "LoginComponent")
               ELSE <<>>, c)
  /\ UNCHANGED <<hist, localStorage, currentUser, isAuthMemo, reqs, pendingNav,
                 route, isLoading>>

\* AuthService.login called and subscribed by any other caller
CallLogin(c) ==
  /\ CanSend
  /\ StartWith("login", 0, login(c, "direct"), c)
  /\ UNCHANGED <<hist, localStorage, currentUser, isAuthMemo, reqs, pendingNav,
                 route, isLoading>>

\* any other request sent through the application's HttpClient
OtherRequest ==
  /\ CanSend
  /\ Start("request", 0, <<OpPost("other", NoCred, "app")>>)
  /\ UNCHANGED <<hist, localStorage, currentUser, isAuthMemo, reqs, pendingNav,
                 route, isLoading>>

\* the transport answers a pending request
Respond(r, outcome) ==
  /\ r \in Pending
  /\ outcome.ok => outcome \in (IF reqs[r].url = "login"
                                THEN LoginResponses ELSE OtherResponses)
  /\ Start("response", r, responseHandler(r, reqs[r], outcome))
  /\ reqs' = [reqs EXCEPT ![r].st = "done", ![r].resp = outcome]
  /\ hist' = HistRespond(reqs', reqs[r], outcome)
  /\ UNCHANGED <<localStorage, currentUser, isAuthMemo, pendingNav, route,
                 isLoading>>

\* AuthService.logout() called by any caller
CallLogout ==
  /\ Start("logout", 0, logout)
  /\ hist' = HistLogout(reqs)
  /\ UNCHANGED <<localStorage, currentUser, isAuthMemo, reqs, pendingNav,
                 route, isLoading>>

\* variant: the dashboard logs out and stays
dashboardComponentLogout_Stay == logout
\* the body of DashboardComponent.logout()
dashboardComponentLogout == logout \o <<OpNavigate("/login")>>

\* DashboardComponent.logout()
DashboardLogout ==
  /\ route = "/dashboard"
  /\ Start("dashboardLogout", 0, dashboardComponentLogout)
  /\ hist' = HistLogout(reqs)
  /\ UNCHANGED <<localStorage, currentUser, isAuthMemo, reqs, pendingNav,
                 route, isLoading>>

\* an observer (template, component) reads isAuthenticated() / currentUser()
ReadAuth ==
  /\ Start("read", 0, <<>>)
  /\ isAuthMemo' = readIsAuthenticated
  /\ UNCHANGED <<hist, localStorage, currentUser, reqs, pendingNav, route, isLoading>>

\* (service.currentUser as any).set(v)
DirectWrite(v) ==
  /\ handler = Idle
  /\ LET w == asReadonlySet(v)
     IN /\ currentUser' = w.value
        /\ isAuthMemo' = IF w.threw THEN isAuthMemo ELSE signalSet(currentUser, v)
        /\ hlog' = IF w.threw THEN <<[Op0 EXCEPT !.op = "throw"]>> ELSE <<>>
  /\ handler' = [name |-> "directWrite", rid |-> 0, ls0 |-> localStorage,
                 cu0 |-> currentUser, arg |-> NoCred]
  /\ UNCHANGED <<hist, localStorage, reqs, todo, pendingNav, route, isLoading>>

\* the user follows a link or edits the URL
UserNavigate(target) ==
  /\ Start("userNavigate", 0, <<OpNavigate(target)>>)
  /\ UNCHANGED <<hist, localStorage, currentUser, isAuthMemo, reqs, pendingNav,
                 route, isLoading>>

\* the statements of a guard run inside the router's processing
RECURSIVE RunOps(_, _)
RunOps(ops, st) ==
  IF ops = <<>> THEN st
  ELSE RunOps(Tail(ops),
              CASE Head(ops).op = "setItem" ->
                     [st EXCEPT !.ls = setItem(Head(ops).tok)]
                [] Head(ops).op = "removeItem" -> [st EXCEPT !.ls = removeItem]
                [] Head(ops).op = "set" -> [st EXCEPT !.cu = Head(ops).val]
                [] Head(ops).op = "navigate" -> [st EXCEPT !.nav = Head(ops).to]
                [] OTHER -> st)

\* the router processes the requested navigation; '/dashboard' has
\* canActivate: [authGuard]
RunNavigation ==
  /\ handler = Idle
  /\ pendingNav # NoNav
  /\ handler' = [name |-> "navigation", rid |-> 0, ls0 |-> localStorage,
                 cu0 |-> currentUser, arg |-> NoCred]
  /\ IF pendingNav = "/dashboard"
     THEN LET g == authGuard
              st == RunOps(g.ops, [ls |-> localStorage, cu |-> currentUser,
                                   nav |-> NoNav])
          IN /\ hlog' = <<[Op0 EXCEPT !.op = "authGuard", !.b = g.result]>> \o g.ops
             /\ isAuthMemo' = IF st.cu = currentUser THEN readIsAuthenticated
                              ELSE signalSet(currentUser, st.cu)
             /\ route' = IF g.result THEN "/dashboard" ELSE route
             /\ localStorage' = st.ls
             /\ currentUser' = st.cu
             /\ pendingNav' = st.nav
     ELSE /\ hlog' = <<>>
          /\ isAuthMemo' = isAuthMemo
          /\ route' = pendingNav
          /\ pendingNav' = NoNav
          /\ UNCHANGED <<localStorage, currentUser>>
  /\ UNCHANGED <<hist, reqs, todo, isLoading>>

\* the page is reloaded (between two handlers) and the application starts
\* again: storage survives, everything in memory is rebuilt
Reload(url) ==
  /\ url \in Routes
  /\ handler = Idle
  /\ localStorage' = localStorage
  /\ currentUser' = constructorAuthService(localStorage)
  /\ isAuthMemo' = [val |-> FALSE, dirty |-> TRUE]
  /\ reqs' = [r \in 1..MaxReq |-> Free]
  /\ todo' = <<>>
  /\ hlog' = <<>>
  /\ handler' = [name |-> "constructor", rid |-> 0, ls0 |-> localStorage,
                 cu0 |-> JsNull, arg |-> NoCred]
  /\ pendingNav' = url
  /\ route' = "/"
  /\ isLoading' = FALSE
  /\ hist' = HistReload

\* ---- the running handler executes its next statement ----
Step(name) ==
  /\ todo # <<>>
  /\ Head(todo).op = name
  /\ todo' = Tail(todo)
  /\ hlog' = Append(hlog, Head(todo))
  /\ handler' = handler

StepSetItem ==
  /\ Step("setItem")
  /\ localStorage' = setItem(Head(todo).tok)
  /\ UNCHANGED <<hist, currentUser, isAuthMemo, reqs, pendingNav, route, isLoading>>

StepRemoveItem ==
  /\ Step("removeItem")
  /\ localStorage' = removeItem
  /\ UNCHANGED <<hist, currentUser, isAuthMemo, reqs, pendingNav, route, isLoading>>

StepSet ==
  /\ Step("set")
  /\ currentUser' = Head(todo).val
  /\ isAuthMemo' = signalSet(currentUser, Head(todo).val)
  /\ UNCHANGED <<hist, localStorage, reqs, pendingNav, route, isLoading>>

StepNavigate ==
  /\ Step("navigate")
  /\ pendingNav' = Head(todo).to
  /\ hist' = [hist EXCEPT !.nav = IF hist.app /\ handler.name = "response"
                                     /\ Head(todo).to = "/dashboard"
                                  THEN "login" ELSE "none"]
  /\ UNCHANGED <<localStorage, currentUser, isAuthMemo, reqs, route, isLoading>>

StepIsLoading ==
  /\ Step("isLoading.set")
  /\ isLoading' = Head(todo).b
  /\ UNCHANGED <<hist, localStorage, currentUser, isAuthMemo, reqs, pendingNav, route>>

\* http.post: the request leaves
StepPost ==
  /\ Step("post")
  /\ FreeSlots # {}
  /\ reqs' = [reqs EXCEPT ![NextSlot] = Request(Head(todo).url, Head(todo).cred,
                                                 Head(todo).caller)]
  /\ UNCHANGED <<hist, localStorage, currentUser, isAuthMemo, pendingNav, route,
                 isLoading>>

\* the subscriber's next / error callback receives the outcome
StepEmit ==
  /\ Step("emit")
  /\ reqs' = [reqs EXCEPT ![Head(todo).rid].got = Append(@, Head(todo).out)]
  /\ UNCHANGED <<hist, localStorage, currentUser, isAuthMemo, pendingNav, route,
                 isLoading>>

\* the handler returns to the event loop; an answered request is forgotten
Return ==
  /\ handler # Idle
  /\ todo = <<>>
  /\ handler' = Idle
  /\ hlog' = <<>>
  /\ reqs' = [r \in 1..MaxReq |-> IF reqs[r].st = "done" THEN Free ELSE reqs[r]]
  /\ hist' = [hist EXCEPT !.old = {r \in @ : reqs[r].st = "pending"},
                          !.nav = IF handler.name = "navigation"
                                  THEN "none" ELSE @]
  /\ UNCHANGED <<localStorage, currentUser, isAuthMemo, todo, pendingNav, route,
                 isLoading>>

Next ==
  \/ \E c \in Credentials : onSubmit(c)
  \/ \E c \in Credentials : CallLogin(c)
  \/ OtherRequest
  \/ \E r \in 1..MaxReq, o \in LoginResponses \cup OtherResponses \cup Failures :
       Respond(r, o)
  \/ CallLogout
  \/ DashboardLogout
  \/ ReadAuth
  \/ \E v \in {ObjUser(u) : u \in UserIds} : DirectWrite(v)
  \/ \E target \in Routes : UserNavigate(target)
  \/ RunNavigation
  \/ \E url \in Routes : Reload(url)
  \/ StepSetItem
  \/ StepRemoveItem
  \/ StepSet
  \/ StepNavigate
  \/ StepIsLoading
  \/ StepPost
  \/ StepEmit
  \/ Return

Spec == Init /\ [][Next]_vars

\* the application as wired in main.ts / app.routes.ts: AuthService is called
\* by LoginComponent, DashboardComponent and authInterceptor only
InitApp ==
  /\ reqs = [r \in 1..MaxReq |-> Free]
  /\ hist = HistInit(TRUE)
  /\ \E url \in Routes : Boot(Absent, url)
NextApp ==
  \/ \E c \in Credentials : onSubmit(c)
  \/ OtherRequest
  \/ \E r \in 1..MaxReq, o \in LoginResponses \cup OtherResponses \cup Failures :
       Respond(r, o)
  \/ DashboardLogout
  \/ ReadAuth
  \/ \E target \in Routes : UserNavigate(target)
  \/ RunNavigation
  \/ \E url \in Routes : Reload(url)
  \/ StepSetItem
  \/ StepRemoveItem
  \/ StepSet
  \/ StepNavigate
  \/ StepIsLoading
  \/ StepPost
  \/ StepEmit
  \/ Return
SpecApp == InitApp /\ [][NextApp]_vars

\* one lifetime of the page with LoginComponent in use: every statement of
\* a started callback runs (run to completion), and the transport answers
\* every request it was given
NextLive ==
  \/ \E c \in Credentials : onSubmit(c)
  \/ \E r \in 1..MaxReq, o \in LoginResponses \cup OtherResponses \cup Failures :
       Respond(r, o)
  \/ RunNavigation
  \/ StepSetItem
  \/ StepRemoveItem
  \/ StepSet
  \/ StepNavigate
  \/ StepIsLoading
  \/ StepPost
  \/ StepEmit
  \/ Return
Answered(r) ==
  \E o \in LoginResponses \cup OtherResponses \cup Failures : Respond(r, o)
RunToCompletion ==
  StepSetItem \/ StepRemoveItem \/ StepSet \/ StepNavigate \/ StepIsLoading
    \/ StepPost \/ StepEmit \/ Return
SpecLive ==
  /\ Init
  /\ [][NextLive]_vars
  /\ WF_vars(RunToCompletion)
  /\ \A r \in 1..MaxReq : SF_vars(Answered(r))

TypeOK ==
  /\ localStorage \in {Absent} \cup {setItem(x) : x \in Tokens}
  /\ currentUser.t \in {"null", "object"}
  /\ isLoading \in BOOLEAN
  /\ Cardinality(Pending) <= MaxReq
  /\ route \in Routes \cup {"/"}

\* ======================= properties =======================
\* the handler has executed all its statements and has not yet returned
Finished == handler # Idle /\ todo = <<>>
\* the handler (running or finished) is the processing of a response
Answering == handler.name = "response"
Req == reqs[handler.rid]
AfterLoginSuccess == Answering /\ Finished /\ Req.url = "login" /\ Req.resp.ok
AfterLoginFailure == Answering /\ Finished /\ Req.url = "login" /\ ~Req.resp.ok
AfterConstructor == handler.name = "constructor"
AfterLogout == handler.name = "logout" /\ Finished
IsPrefix(a, b) == Len(a) <= Len(b) /\ \A i \in 1..Len(a) : a[i] = b[i]

\* C1: once a successful login response {token, user} has been processed,
\* from any prior state, storage holds token, currentUser() equals user and
\* isAuthenticated() is true.
C1_LoginSuccess ==
  AfterLoginSuccess =>
    /\ localStorage = setItem(Req.resp.token)
    /\ currentUser = ObjUser(Req.resp.user)
    /\ isAuthenticated

\* a successful login processed over a session restored with another token
C1_Witness ==
  /\ AfterLoginSuccess
  /\ handler.cu0 = ObjToken("tok-1")
  /\ handler.ls0 = setItem("tok-1")
  /\ Req.resp = Success("tok-2", 2)

\* C2: after a failed login has been delivered, Session and storage are what
\* they were before the response arrived.
C2_FailedLoginUnchanged ==
  AfterLoginFailure =>
    /\ localStorage = handler.ls0
    /\ currentUser = handler.cu0

\* C3: a failed login reaches the subscriber's error callback exactly once,
\* with the transport's error (same status), and never as a success.
C3_ErrorDeliveredOnce ==
  \A r \in 1..MaxReq :
    (reqs[r].st = "done" /\ reqs[r].url = "login" /\ ~reqs[r].resp.ok) =>
      /\ Len(reqs[r].got) <= 1
      /\ \A i \in 1..Len(reqs[r].got) :
           /\ ~reqs[r].got[i].ok
           /\ reqs[r].got[i] = reqs[r].resp
      /\ (Finished /\ Answering /\ handler.rid = r) => Len(reqs[r].got) = 1

\* a 401 on a login submitted by LoginComponent has reached its error callback
C3_Witness ==
  /\ AfterLoginFailure
  /\ Req.caller = "LoginComponent"
  /\ Req.resp.status = 401
  /\ Req.got = <<Failure(401)>>

\* C4: logout() leaves storage absent, currentUser() null and
\* isAuthenticated() false from any state; from a logged-out state it
\* changes nothing and raises no error.
C4_Logout ==
  AfterLogout =>
    /\ localStorage = Absent
    /\ currentUser = JsNull
    /\ ~isAuthenticated
    /\ \A i \in 1..Len(hlog) : hlog[i].op # "throw"
    /\ (handler.ls0 = Absent /\ handler.cu0 = JsNull) =>
         (localStorage = handler.ls0 /\ currentUser = handler.cu0)

\* logout() has run on a session established by a login
C4_Witness ==
  /\ AfterLogout
  /\ handler.cu0 = ObjUser(1)
  /\ handler.ls0 = setItem("tok-1")

\* logout() has run on an already logged-out session
C4_WitnessIdempotent ==
  /\ AfterLogout
  /\ handler.cu0 = JsNull
  /\ handler.ls0 = Absent

\* C5 (as claimed): for every string T in storage at construction, after the
\* constructor isAuthenticated() is true and currentUser() holds T as token.
C5_RestoreAnyString ==
  (AfterConstructor /\ handler.ls0 # Absent) =>
    /\ isAuthenticated
    /\ currentUser.token = handler.ls0

\* C5 (amended): for every non-empty string T in storage at construction,
\* after the constructor isAuthenticated() is true and currentUser() is
\* { token: T }; for the empty string the session is empty.
C5_RestoreNonEmpty ==
  (AfterConstructor /\ handler.ls0 # Absent) =>
    IF handler.ls0[1] # ""
    THEN /\ isAuthenticated
         /\ currentUser = ObjToken(handler.ls0[1])
         /\ localStorage = handler.ls0
    ELSE /\ ~isAuthenticated
         /\ currentUser = JsNull

\* the application was started again over the token a login had stored
C5_Witness ==
  /\ AfterConstructor
  /\ handler.ls0 = setItem("tok-2")
  /\ currentUser = ObjToken("tok-2")
  /\ isAuthenticated

\* C6: after the constructor with the storage key absent, isAuthenticated()
\* is false, currentUser() is null and storage is still absent.
C6_RestoreAbsent ==
  (AfterConstructor /\ handler.ls0 = Absent) =>
    /\ ~isAuthenticated
    /\ currentUser = JsNull
    /\ localStorage = Absent

\* the application started with nothing stored
C6_Witness ==
  /\ AfterConstructor
  /\ handler.ls0 = Absent
  /\ currentUser = JsNull

\* C7: in every state isAuthenticated() is true exactly when #currentUser
\* holds a value other than null, also right after a login response, a
\* logout and a forced logout, whatever the memo of the computed holds.
C7_IsAuthenticatedIffSession ==
  isAuthenticated <=> (currentUser # JsNull)

\* isAuthenticated() was read as true, then a 401 cleared the session
C7_Witness ==
  /\ Answering /\ Finished
  /\ Req.resp.status = 401
  /\ handler.cu0 # JsNull
  /\ isAuthMemo.val = TRUE
  /\ currentUser = JsNull

\* C8 (as claimed): whenever no handler is mid-execution the token held by
\* the Session equals the token in storage (both absent or the same string).
C8_Lockstep ==
  todo = <<>> => currentUser.token = localStorage

\* C8 (amended): whenever no handler is mid-execution, a Session that is the
\* restored placeholder { token: T } has T in storage; a Session that is a
\* login's user payload carries no token while storage holds one; an empty
\* Session has storage absent or holding the empty string.
C8_LockstepAmended ==
  todo = <<>> =>
    /\ currentUser.token # NoProp => localStorage = currentUser.token
    /\ (currentUser.t = "object" /\ currentUser.token = NoProp) =>
         localStorage # Absent
    /\ currentUser = JsNull => localStorage \in {Absent, setItem("")}

\* a login has replaced the restored placeholder by the user payload
C8_Witness ==
  /\ AfterLoginSuccess
  /\ handler.cu0 = ObjToken("tok-1")
  /\ currentUser = ObjUser(2)
  /\ localStorage = setItem("tok-2")

\* the statements a step may execute as part of logout()
InLogout ==
  /\ todo # <<>>
  /\ Head(todo) = OpSet(JsNull)
  /\ hlog # <<>> /\ hlog[Len(hlog)] = OpRemoveItem
  /\ \/ handler.name \in {"logout", "dashboardLogout"}
     \/ Answering /\ Req.resp.status = 401
InLoginTap ==
  /\ Answering /\ Req.url = "login" /\ Req.resp.ok
  /\ todo # <<>>
  /\ Head(todo) = OpSet(ObjUser(Req.resp.user))

\* C9: the Session changes only in the constructor, in the tap of a
\* successful login and in logout (explicit or forced); reading, the route
\* guard, a failed login and a write through the exposed currentUser view
\* leave it unchanged, and that write throws.
C9_SessionFrame ==
  [][/\ (currentUser' # currentUser) =>
          (handler'.name = "constructor" \/ InLoginTap \/ InLogout)
     /\ (handler = Idle /\ handler'.name \in {"read", "navigation"}) =>
          currentUser' = currentUser
     /\ (handler = Idle /\ handler'.name = "directWrite") =>
          (currentUser' = currentUser /\ hlog' = <<[Op0 EXCEPT !.op = "throw"]>>)
     /\ (Answering /\ Req.url = "login" /\ ~Req.resp.ok /\ handler' = handler) =>
          currentUser' = currentUser
    ]_vars

\* C10: when a request fails with 401 the interceptor runs logout() and then
\* requests navigation to '/login', whatever the Session was; once the
\* handler has run storage is absent and isAuthenticated() is false.
C10_ForcedLogout ==
  (Answering /\ Req.resp.status = 401) =>
    LET forced == <<OpRemoveItem, OpSet(JsNull), OpNavigate("/login")>>
    IN /\ IsPrefix(hlog, forced) \/ IsPrefix(forced, hlog)
       /\ Finished =>
            /\ IsPrefix(forced, hlog)
            /\ localStorage = Absent
            /\ ~isAuthenticated

\* a 401 on a request other than login has ended an established session
C10_Witness ==
  /\ Answering /\ Finished
  /\ Req.url = "other"
  /\ Req.resp.status = 401
  /\ handler.cu0 = ObjUser(1)
  /\ handler.ls0 = setItem("tok-1")
  /\ pendingNav = "/login"

\* ---- the route guard ----
GuardOp(b) == [Op0 EXCEPT !.op = "authGuard", !.b = b]
\* the router starts processing a navigation to '/dashboard'
GuardCheck ==
  handler = Idle /\ handler'.name = "navigation" /\ pendingNav = "/dashboard"

\* C11: for every navigation attempt to '/dashboard', authGuard returns true
\* and redirects nowhere exactly when isAuthenticated() is true at the time
\* of the check; otherwise it returns false and requests navigation to
\* '/login'. The dashboard is activated only by a check made while
\* isAuthenticated() is true.
C11_GuardFollowsIsAuthenticated ==
  [][ /\ GuardCheck =>
           IF isAuthenticated
           THEN /\ hlog' = <<GuardOp(TRUE)>>
                /\ route' = "/dashboard"
                /\ pendingNav' = NoNav
           ELSE /\ hlog' = <<GuardOp(FALSE), OpNavigate("/login")>>
                /\ route' = route
                /\ pendingNav' = "/login"
      /\ (route' = "/dashboard" /\ route # "/dashboard") =>
           GuardCheck /\ isAuthenticated ]_vars

\* the guard has denied '/dashboard' to an empty Session and redirected
C11_Witness ==
  /\ handler.name = "navigation"
  /\ hlog = <<GuardOp(FALSE), OpNavigate("/login")>>
  /\ ~isAuthenticated
  /\ pendingNav = "/login"
  /\ route # "/dashboard"

\* ---- the Authorization header ----
\* request r leaves in this step
Sent(r) == reqs[r].st = "free" /\ reqs'[r].st = "pending"

\* C12: every request sent through the HttpClient while a token is stored
\* under 'token_access' carries that token in its Authorization header, and
\* a request sent while the key is absent (after logout) carries none.
C12_TokenAttached ==
  [][\A r \in 1..MaxReq : Sent(r) => reqs'[r].authorization = localStorage]_vars

\* ---- a session across a reload ----
\* the page was reloaded while the session of a login was live
ReloadedAfterLogin == AfterConstructor /\ hist.login # NoOut

\* C13 as stated: after a successful login {token: T, user: U} and a reload
\* with no logout in between, isAuthenticated() is true and currentUser()
\* is the placeholder holding T, not U.
C13_SurvivesReload ==
  ReloadedAfterLogin =>
    /\ isAuthenticated
    /\ currentUser = ObjToken(hist.login.token)
    /\ currentUser # ObjUser(hist.login.user)

\* C13 amended: the same for every non-empty T; after a login whose token
\* is the empty string the reloaded Session is empty.
C13_SurvivesReloadNonEmpty ==
  ReloadedAfterLogin =>
    IF hist.login.token # ""
    THEN /\ isAuthenticated
         /\ currentUser = ObjToken(hist.login.token)
         /\ currentUser # ObjUser(hist.login.user)
    ELSE /\ ~isAuthenticated
         /\ currentUser = JsNull

\* reloaded after the login answered {token: "tok-1", user: {id: 1}}
C13_Witness ==
  /\ ReloadedAfterLogin
  /\ hist.login = Success("tok-1", 1)
  /\ currentUser = ObjToken("tok-1")
  /\ localStorage = setItem("tok-1")

\* ---- concurrent logins ----
\* no handler is in the middle of its statements
Settled == todo = <<>>

\* C14: with several login calls in flight that all succeed, in every order
\* of arrival, between response handlers the stored token and currentUser()
\* both come from the response processed last: a token of one response is
\* never paired with the user of another.
C14_LastResponseWins ==
  /\ AfterLoginSuccess => hist.last = "login" /\ hist.login = Req.resp
  /\ (Settled /\ hist.last = "login") =>
       /\ localStorage = setItem(hist.login.token)
       /\ currentUser = ObjUser(hist.login.user)

\* two logins were in flight; the later one was answered first, its
\* response is in storage and Session while the earlier one is still pending
C14_Witness ==
  /\ AfterLoginSuccess
  /\ handler.rid = 2
  /\ Req.resp = Success("tok-2", 2)
  /\ reqs[1].st = "pending" /\ reqs[1].url = "login"
  /\ handler.cu0 = ObjUser(1)
  /\ handler.ls0 = setItem("tok-1")

\* ---- after logout ----
\* this step makes isAuthenticated() true or writes the storage key
SessionUp ==
  \/ ~isAuthenticated /\ isAuthenticated'
  \/ localStorage = Absent /\ localStorage' # Absent
\* the running handler processes a successful login response
InLoginSuccess ==
  handler.name = "response" /\ reqs[handler.rid].url = "login"
                            /\ reqs[handler.rid].resp.ok
DeniedWhileOut ==
  (GuardCheck /\ ~isAuthenticated) => hlog'[1] = GuardOp(FALSE)

\* C15: after logout() has run, isAuthenticated() stays false, the
\* key stays absent and authGuard denies '/dashboard' until a login call
\* issued after that logout succeeds; a login call issued before the logout
\* cannot re-establish the session.
C15_OnlyLaterLogin ==
  [][ /\ SessionUp => InLoginSuccess /\ handler.rid \notin hist.old
      /\ DeniedWhileOut ]_vars

\* ---- login / logout cycles ----
\* C16: after any sequence of completed successful logins and logouts
\* (explicit or forced) that started from an empty Session, currentUser()
\* is the user of the most recent successful login if no logout ran after
\* it, and null otherwise: earlier logins and logouts leave no trace.
C16_MostRecentLogin ==
  (Settled /\ hist.last # "restored") =>
     currentUser = IF hist.last = "login"
                   THEN ObjUser(hist.login.user) ELSE JsNull

\* DashboardComponent.logout() has ended the session of user 2, which had
\* itself replaced an earlier state
C16_Witness ==
  /\ handler.name = "dashboardLogout" /\ Finished
  /\ handler.cu0 = ObjUser(2)
  /\ hist.last = "empty"
  /\ currentUser = JsNull

\* ---- LoginComponent's navigation to the dashboard ----
\* the navigation requested by LoginComponent's next callback is waiting
\* for the router
LoginNavPending == handler = Idle /\ hist.nav # "none"

\* C17: once a successful login response has been processed and
\* LoginComponent has navigated to '/dashboard', isAuthenticated() is true
\* when authGuard runs for that navigation and the guard admits it, in every
\* interleaving with the application's other events (a 401 on another
\* request, DashboardComponent.logout, further logins, reads).
C17_LoginNavigationAdmitted ==
  [][ /\ LoginNavPending => pendingNav = "/dashboard" /\ isAuthenticated
      /\ (GuardCheck /\ hist.nav # "none") =>
           /\ hlog' = <<GuardOp(TRUE)>>
           /\ route' = "/dashboard" ]_vars

\* the guard has admitted LoginComponent's navigation while another request
\* of the application is in flight
C17_Witness ==
  /\ handler.name = "navigation"
  /\ hist.nav = "login"
  /\ hlog = <<GuardOp(TRUE)>>
  /\ route = "/dashboard"
  /\ \E r \in 1..MaxReq : reqs[r].st = "pending" /\ reqs[r].url = "other"

\* ---- what the caller of login receives ----
\* C18: the value delivered to the caller of a successful login is the
\* transport's response, unchanged and delivered once, and at the moment of
\* delivery storage and Session already hold the response's token and user.
C18_FullResponseAfterUpdate ==
  (Answering /\ Req.url = "login" /\ Req.resp.ok) =>
     /\ Req.got # <<>> =>
          /\ Req.got = <<Req.resp>>
          /\ localStorage = setItem(Req.resp.token)
          /\ currentUser = ObjUser(Req.resp.user)
     /\ Finished => Len(Req.got) = 1

\* a direct caller has received {token: "tok-2", user: {id: 2}} over a
\* session of user 1
C18_Witness ==
  /\ AfterLoginSuccess
  /\ Req.caller = "direct"
  /\ Req.got = <<Success("tok-2", 2)>>
  /\ handler.cu0 = ObjUser(1)
  /\ currentUser = ObjUser(2)

\* ---- one request per login ----
\* the running handler has called AuthService.login(handler.arg)
LoginCalled ==
  \/ handler.name = "login"
  \/ handler.name = "onSubmit" /\ loginFormValid(handler.arg)
Posts == {i \in 1..Len(hlog) : hlog[i].op = "post"}

\* C19: each login(c) issues exactly one transport request, which carries
\* c unchanged whatever c is; the processing of a response, failed or not,
\* sends no request (no retry).
C19_OneRequestPerLogin ==
  [][ /\ (LoginCalled /\ Finished) => Cardinality(Posts) = 1
      /\ (LoginCalled /\ handler' = handler) =>
           \A r \in 1..MaxReq :
             Sent(r) => /\ reqs'[r].url = "login"
                        /\ reqs'[r].cred = handler.arg
                        /\ Posts = {}
      /\ (Answering /\ handler' = handler) =>
           \A r \in 1..MaxReq : ~Sent(r) ]_vars

\* a login with a password the form would reject was sent as it is, has
\* failed, and nothing is in flight afterwards
C19_Witness ==
  /\ AfterLoginFailure
  /\ Req.caller = "direct"
  /\ Req.cred = [email |-> "a@b.com", password |-> "abc"]
  /\ Req.resp.status = 500
  /\ Pending = {}

\* ---- logout and the transport ----
\* C20: logout() is one synchronous call that sends nothing: it executes
\* removeItem and set(null) and the requests, in flight or answered, are the
\* same before, during and after it.
C20_LogoutSendsNothing ==
  [][ /\ handler'.name \in {"logout", "dashboardLogout"} => reqs' = reqs
      /\ AfterLogout => hlog = <<OpRemoveItem, OpSet(JsNull)>> ]_vars

\* logout() has ended a session while a login request is in flight, and the
\* request is still in flight
C20_Witness ==
  /\ AfterLogout
  /\ handler.cu0 = ObjUser(1)
  /\ currentUser = JsNull
  /\ \E r \in 1..MaxReq : reqs[r].st = "pending" /\ reqs[r].url = "login"

\* ---- the order of the two writes ----
\* the running handler has already executed a #currentUser.set
SetDone == \E i \in 1..Len(hlog) : hlog[i].op = "set"
\* the running handler is a logout: explicit, or the interceptor's on a 401
LogoutRunning ==
  \/ handler.name \in {"logout", "dashboardLogout"}
  \/ handler.name = "response" /\ reqs[handler.rid].resp.status = 401

\* C21: within a successful login the storage write comes before the
\* Session is set, and within logout the storage removal comes before the
\* Session is cleared: in no state, mid-handler or not, has the handler set
\* the Session while storage still misses the handler's write.
C21_StorageFirst ==
  /\ \A i \in 1..Len(hlog) :
       hlog[i].op = "set" =>
         /\ i > 1
         /\ IF hlog[i].val = JsNull
            THEN hlog[i-1] = OpRemoveItem
            ELSE hlog[i-1].op = "setItem"
  /\ (InLoginSuccess /\ SetDone) => localStorage = setItem(Req.resp.token)
  /\ (LogoutRunning /\ SetDone) => localStorage = Absent

\* between the two writes of a login: storage already holds the new token,
\* the Session is still the previous user
C21_Witness ==
  /\ InLoginTap
  /\ handler.ls0 = setItem("tok-1")
  /\ localStorage = setItem("tok-2")
  /\ currentUser = ObjUser(1)

\* ---- the loading flag ----
\* a login request of LoginComponent is in flight
SubmitPending(r) == reqs[r].st = "pending" /\ reqs[r].caller = "LoginComponent"
EventuallyNotLoading == isLoading ~> ~isLoading

\* C22: when every login request of LoginComponent is eventually answered,
\* isLoading returns to false after each valid submit; and isLoading never
\* returns to false while a request of LoginComponent is left unanswered
\* (there is no timeout and no cancellation).
C22_LoadingFollowsRequests ==
  /\ EventuallyNotLoading
  /\ [][(isLoading /\ ~isLoading') =>
          \A r \in 1..MaxReq : ~SubmitPending(r)']_vars

\* C28: in every reachable state in which a login request submitted through
\* LoginComponent.onSubmit is in flight, isLoading is true, also when
\* onSubmit was invoked again before an earlier request completed.
C28_LoadingWhileInFlight ==
  (\E r \in 1..MaxReq : SubmitPending(r)) => isLoading

\* ---- the guard is pure ----
\* C23: evaluating authGuard changes neither the Session nor the storage
\* key nor anything else of the application, whether it admits or denies;
\* besides its result its only effect is the navigation request to '/login'
\* on denial.
C23_GuardPure ==
  [][GuardCheck =>
       /\ currentUser' = currentUser
       /\ localStorage' = localStorage
       /\ isAuthenticated' = isAuthenticated
       /\ reqs' = reqs
       /\ isLoading' = isLoading
       /\ \/ hlog' = <<GuardOp(TRUE)>> /\ pendingNav' = NoNav
          \/ hlog' = <<GuardOp(FALSE), OpNavigate("/login")>>
               /\ pendingNav' = "/login"]_vars

\* the guard has admitted user 1: Session and storage are as before
C23_Witness ==
  /\ handler.name = "navigation"
  /\ hlog = <<GuardOp(TRUE)>>
  /\ handler.cu0 = ObjUser(1) /\ currentUser = ObjUser(1)
  /\ handler.ls0 = setItem("tok-1") /\ localStorage = setItem("tok-1")
  /\ route = "/dashboard"

\* ---- storage and isAuthenticated ----
\* the page is reloaded in this step
Reloading == handler = Idle /\ handler'.name = "constructor"

\* C24 as stated: whenever no handler is mid-execution the storage key is
\* present iff isAuthenticated() is true; equivalently a reload from such a
\* state preserves isAuthenticated().
C24_StoredIffAuthenticated ==
  [][ /\ Settled => (localStorage # Absent <=> isAuthenticated)
      /\ Reloading => isAuthenticated' = isAuthenticated ]_vars

\* C24 amended: the same whenever the key does not hold the empty string;
\* an absent key always means not authenticated, and with the empty string
\* stored isAuthenticated() is true until the next reload and false after.
C24_StoredNonEmptyIffAuthenticated ==
  [][ /\ Settled =>
           /\ isAuthenticated => localStorage # Absent
           /\ localStorage \notin {Absent, setItem("")} => isAuthenticated
           /\ localStorage = setItem("") =>
                (isAuthenticated <=> hist.last = "login")
      /\ Reloading =>
           isAuthenticated' = (isAuthenticated /\ localStorage # setItem("")) ]_vars

\* a reload has kept the session of the stored token "tok-2"
C24_Witness ==
  /\ AfterConstructor
  /\ hist.last = "restored"
  /\ hist.login = Success("tok-2", 2)
  /\ localStorage = setItem("tok-2")
  /\ isAuthenticated

\* ---- a stop between the two writes ----
Writes == {"setItem", "removeItem", "set"}
\* the running login tap or logout has done one of its two writes
BetweenWrites ==
  /\ InLoginSuccess \/ LogoutRunning
  /\ hlog # <<>> /\ hlog[Len(hlog)].op \in Writes
  /\ todo # <<>> /\ Head(todo).op \in Writes

\* the process stops between the two writes and the page is loaded again:
\* storage survives, everything in memory is rebuilt. The restart remembers
\* the storage before the interrupted operation (ls0) and the Session the
\* operation would have left (cu0).
Crash(url) ==
  /\ url \in Routes
  /\ BetweenWrites
  /\ localStorage' = localStorage
  /\ currentUser' = constructorAuthService(localStorage)
  /\ isAuthMemo' = [val |-> FALSE, dirty |-> TRUE]
  /\ reqs' = [r \in 1..MaxReq |-> Free]
  /\ todo' = <<>>
  /\ hlog' = <<>>
  /\ handler' = [name |-> "restart", rid |-> 0, ls0 |-> handler.ls0,
                 cu0 |-> RunOps(todo, [ls |-> localStorage, cu |-> currentUser,
                                       nav |-> NoNav]).cu,
                 arg |-> NoCred]
  /\ pendingNav' = url
  /\ route' = "/"
  /\ isLoading' = FALSE
  /\ hist' = HistReload

\* the Session Manager with its callers, a process that may stop
NextCrash ==
  \/ \E c \in Credentials : onSubmit(c)
  \/ \E r \in 1..MaxReq, o \in LoginResponses \cup OtherResponses \cup Failures :
       Respond(r, o)
  \/ CallLogout
  \/ \E url \in Routes : Reload(url)
  \/ \E url \in Routes : Crash(url)
  \/ RunNavigation
  \/ StepSetItem
  \/ StepRemoveItem
  \/ StepSet
  \/ StepNavigate
  \/ StepIsLoading
  \/ StepPost
  \/ StepEmit
  \/ Return
SpecCrash == Init /\ [][NextCrash]_vars
AfterCrash == handler.name = "restart"

\* C25 as stated: if the process stops between the two writes of a
\* successful login or of a logout, re-initializing from storage yields the
\* authentication status the interrupted operation would have produced.
C25_CrashYieldsOutcome ==
  AfterCrash => (isAuthenticated <=> Truthy(handler.cu0))

\* C25 amended: the same unless the interrupted login's token is the empty
\* string, in which case the re-initialized Session is empty.
C25_CrashYieldsOutcomeNonEmpty ==
  AfterCrash =>
    IF localStorage = setItem("")
    THEN ~isAuthenticated
    ELSE isAuthenticated <=> Truthy(handler.cu0)

\* a first login was interrupted after its storage write: the restarted
\* application is authenticated with the placeholder of the new token
C25_Witness ==
  /\ AfterCrash
  /\ handler.ls0 = Absent
  /\ handler.cu0 = ObjUser(1)
  /\ localStorage = setItem("tok-1")
  /\ currentUser = ObjToken("tok-1")
  /\ isAuthenticated

\* ---- failures other than 401 ----
\* the running handler processes a failure whose status is not 401
NonAuthFailure == Answering /\ ~Req.resp.ok /\ Req.resp.status # 401

\* C26: a request that fails with a status other than 401 (network
\* failure, 403, 500) causes no logout and no navigation: while its
\* response is processed Session, storage, the route and the requested
\* navigation are unchanged, no request is sent, and the error reaches the
\* subscriber unchanged.
C26_OtherFailuresForwardedOnly ==
  [][ /\ (NonAuthFailure /\ handler' = handler) =>
           /\ UNCHANGED <<localStorage, currentUser, route, pendingNav>>
           /\ isAuthenticated' = isAuthenticated
           /\ \A r \in 1..MaxReq : ~Sent(r)
      /\ (NonAuthFailure /\ Finished) =>
           /\ Req.got = <<Req.resp>>
           /\ localStorage = handler.ls0
           /\ currentUser = handler.cu0 ]_vars

\* a 403 on another request has been forwarded while user 1 is on the
\* dashboard: the session is as before
C26_Witness ==
  /\ NonAuthFailure /\ Finished
  /\ Req.url = "other"
  /\ Req.resp.status = 403
  /\ Req.got = <<Failure(403)>>
  /\ currentUser = ObjUser(1)
  /\ localStorage = setItem("tok-1")
  /\ route = "/dashboard"
  /\ pendingNav = NoNav

\* ---- the dashboard is shown to authenticated users only ----
\* C27: in every settled state (no handler mid-execution, no navigation
\* requested) in which '/dashboard' is the active route, isAuthenticated()
\* is true.
C27_DashboardImpliesAuthenticated ==
  (Settled /\ pendingNav = NoNav /\ route = "/dashboard") => isAuthenticated

\* the dashboard is shown, nothing is pending, and the Session is the
\* placeholder restored from storage after a reload
C27_Witness ==
  /\ handler = Idle
  /\ pendingNav = NoNav
  /\ route = "/dashboard"
  /\ currentUser = ObjToken("tok-1")
  /\ isAuthenticated

====
